---- MODULE Spec2Model ----
(***************************************************************************)
(* Model of the shared OpenType layout sub-tables (src/src/ggg.rs) and of  *)
(* the GSUB root table (src/src/tables/gsub.rs).                           *)
(*                                                                         *)
(* Every operation is a pure function of an immutable byte buffer.  The    *)
(* state is the buffer handed to a table, the glyph id of the last query   *)
(* and the outcome of the last operation.                                  *)
(***************************************************************************)
EXTENDS Integers, Sequences, FiniteSets

VARIABLES
    data,       \* the byte slice the table borrows (a sequence of 0..255)
    glyph_id,   \* the argument of the last query (contains / get)
    pc,         \* "new": nothing ran yet; otherwise the operation that ran
    result      \* the outcome of the last operation

vars == <<data, glyph_id, pc, result>>

(***************************************************************************)
(* Bounds of the model.                                                    *)
(***************************************************************************)
MaxGlyph == 1       \* small glyph ids are 0..MaxGlyph
MaxCount == 3       \* longest glyph / class / index array generated
MaxRecords == 2     \* most range records generated
MaxClass == 2       \* class values are 0..MaxClass
MaxRest == 5        \* 16-bit words following byte 14 of a root table
MaxFVCount == 2     \* largest useful feature-variation record count

(***************************************************************************)
(* Option<T>: None is the empty tuple, Some(v) the 1-tuple.                *)
(***************************************************************************)
None == <<>>
Some(v) == <<v>>
IsSome(o) == Len(o) = 1
IsNone(o) == Len(o) = 0

(***************************************************************************)
(* The byte-cursor primitive (crate::parser).  A Stream is a buffer and an *)
(* offset; every read is bounds checked and fails softly.  Field widths    *)
(* are fixed, so the offset after each successful read is known.           *)
(***************************************************************************)
u16_parse(d, off) == d[off + 1] * 256 + d[off + 2]

u32_parse(d, off) ==
    ((d[off + 1] * 256 + d[off + 2]) * 256 + d[off + 3]) * 256 + d[off + 4]

\* Stream::read::<u16>() at byte offset off
read_u16(d, off) ==
    IF off + 2 <= Len(d) THEN Some(u16_parse(d, off)) ELSE None

\* Stream::read::<u32>() at byte offset off
read_u32(d, off) ==
    IF off + 4 <= Len(d) THEN Some(u32_parse(d, off)) ELSE None

\* Stream::read::<Option<Offset16>>(): zero decodes as the absent offset
read_opt_offset16(d, off) ==
    IF off + 2 <= Len(d)
    THEN Some(IF u16_parse(d, off) # 0 THEN Some(u16_parse(d, off)) ELSE None)
    ELSE None

\* Stream::read_array16 / read_array32: count * SIZE bytes, or failure
read_array(d, off, count, size) ==
    IF off + count * size <= Len(d)
    THEN Some(SubSeq(d, off + 1, off + count * size))
    ELSE None

\* [u8]::get(offset..): the tail of the buffer, None when offset > len
slice_from(d, offset) ==
    IF offset <= Len(d) THEN Some(SubSeq(d, offset + 1, Len(d))) ELSE None

\* LazyArray::len for elements of `size` bytes
LazyArray_len(arr, size) == Len(arr) \div size

(***************************************************************************)
(* Sizes of the fixed-width records.                                       *)
(***************************************************************************)
GlyphId_SIZE == 2
Class_SIZE == 2
RangeRecord_SIZE == 6
ScriptRecord_SIZE == 6
FeatureRecord_SIZE == 6
Offset16_SIZE == 2
FeatureVariationRecord_SIZE == 6

\* LazyArray16<GlyphId>::get / LazyArray16<Class>::get
LazyArray_get_u16(arr, index) ==
    IF index < LazyArray_len(arr, GlyphId_SIZE)
    THEN Some(u16_parse(arr, index * GlyphId_SIZE))
    ELSE None

\* LazyArray16<GlyphId>::binary_search: the loop of binary_search_by
RECURSIVE binary_search_loop(_, _, _, _)
binary_search_loop(arr, key, base, size) ==
    IF size > 1
    THEN LET half == size \div 2
             mid == base + half
             v == u16_parse(arr, mid * GlyphId_SIZE)
         IN binary_search_loop(arr, key, IF v > key THEN base ELSE mid,
                               size - half)
    ELSE IF u16_parse(arr, base * GlyphId_SIZE) = key
         THEN Some(base) ELSE None

binary_search(arr, key) ==
    IF LazyArray_len(arr, GlyphId_SIZE) = 0 THEN None
    ELSE binary_search_loop(arr, key, 0, LazyArray_len(arr, GlyphId_SIZE))

(***************************************************************************)
(* RangeRecord                                                             *)
(***************************************************************************)
RangeRecord_parse(d, off) ==
    [start_glyph_id |-> u16_parse(d, off),
     end_glyph_id |-> u16_parse(d, off + 2),
     value |-> u16_parse(d, off + 4)]

\* a mutant: the range excludes its end
RangeRecord_range_exclusive(r, g) ==
    r.start_glyph_id <= g /\ g < r.end_glyph_id

\* RangeRecord::range().contains(&g)
RangeRecord_range_contains(r, g) ==
    r.start_glyph_id <= g /\ g <= r.end_glyph_id

\* the records of a LazyArray16<RangeRecord>, in buffer order
RangeRecords(arr) ==
    [i \in 1..LazyArray_len(arr, RangeRecord_SIZE) |->
        RangeRecord_parse(arr, (i - 1) * RangeRecord_SIZE)]

(***************************************************************************)
(* CoverageTable::contains.  The outcome is the returned boolean, or a     *)
(* panic (Option::unwrap on None).                                         *)
(***************************************************************************)
Returned(v) == [panic |-> FALSE, value |-> v]
Panicked == [panic |-> TRUE, value |-> None]

contains_format1(d, g) ==
    LET count == read_u16(d, 2) IN
    IF IsNone(count) THEN Returned(FALSE)
    ELSE LET arr == read_array(d, 4, count[1], GlyphId_SIZE) IN
         IF IsNone(arr) THEN Panicked
         ELSE Returned(IsSome(binary_search(arr[1], g)))

contains_format2(d, g) ==
    LET count == read_u16(d, 2) IN
    IF IsNone(count) THEN Returned(FALSE)
    ELSE LET arr == read_array(d, 4, count[1], RangeRecord_SIZE) IN
         IF IsNone(arr) THEN Returned(FALSE)
         ELSE LET records == RangeRecords(arr[1]) IN
              Returned(\E i \in DOMAIN records :
                          RangeRecord_range_contains(records[i], g))

contains(d, g) ==
    LET format == read_u16(d, 0) IN
    IF IsNone(format) THEN Returned(FALSE)
    ELSE IF format[1] = 1 THEN contains_format1(d, g)
    ELSE IF format[1] = 2 THEN contains_format2(d, g)
    ELSE Returned(FALSE)

(***************************************************************************)
(* ClassDefinitionTable::get.  u16 subtraction overflows when a < b: the   *)
(* build decides between a panic (overflow checks on) and wrap-around.     *)
(***************************************************************************)
u16_sub(a, b, overflow_checks) ==
    IF a >= b THEN Some(a - b)
    ELSE IF overflow_checks THEN None
    ELSE Some(a - b + 65536)

\* a mutant: the `glyph_id < start_glyph_id` guard is missing
get_impl_format1_unguarded(d, g, overflow_checks) ==
    LET start_glyph_id == read_u16(d, 2) IN
    IF IsNone(start_glyph_id) THEN Returned(None)
    ELSE LET count == read_u16(d, 4) IN
         IF IsNone(count) THEN Returned(None)
         ELSE LET classes == read_array(d, 6, count[1], Class_SIZE) IN
              IF IsNone(classes) THEN Returned(None)
              ELSE LET index == u16_sub(g, start_glyph_id[1], overflow_checks) IN
                   IF IsNone(index) THEN Panicked
                   ELSE Returned(LazyArray_get_u16(classes[1], index[1]))

get_impl_format1(d, g, overflow_checks) ==
    LET start_glyph_id == read_u16(d, 2) IN
    IF IsNone(start_glyph_id) THEN Returned(None)
    ELSE IF g < start_glyph_id[1] THEN Returned(None)
    ELSE LET count == read_u16(d, 4) IN
         IF IsNone(count) THEN Returned(None)
         ELSE LET classes == read_array(d, 6, count[1], Class_SIZE) IN
              IF IsNone(classes) THEN Returned(None)
              ELSE LET index == u16_sub(g, start_glyph_id[1], overflow_checks) IN
                   IF IsNone(index) THEN Panicked
                   ELSE Returned(LazyArray_get_u16(classes[1], index[1]))

\* a mutant: the last matching record wins
get_impl_format2_last(d, g) ==
    LET count == read_u16(d, 2) IN
    IF IsNone(count) THEN Returned(None)
    ELSE LET arr == read_array(d, 4, count[1], RangeRecord_SIZE) IN
         IF IsNone(arr) THEN Returned(None)
         ELSE LET records == RangeRecords(arr[1])
                  hits == {i \in DOMAIN records :
                              RangeRecord_range_contains(records[i], g)}
              IN IF hits = {} THEN Returned(None)
                 ELSE Returned(Some(records[
                     CHOOSE i \in hits : \A j \in hits : j <= i].value))

get_impl_format2(d, g) ==
    LET count == read_u16(d, 2) IN
    IF IsNone(count) THEN Returned(None)
    ELSE LET arr == read_array(d, 4, count[1], RangeRecord_SIZE) IN
         IF IsNone(arr) THEN Returned(None)
         ELSE LET records == RangeRecords(arr[1])
                  hits == {i \in DOMAIN records :
                              RangeRecord_range_contains(records[i], g)}
              IN IF hits = {} THEN Returned(None)
                 ELSE Returned(Some(records[
                     CHOOSE i \in hits : \A j \in hits : i <= j].value))

get_impl(d, g, overflow_checks) ==
    LET format == read_u16(d, 0) IN
    IF IsNone(format) THEN Returned(None)
    ELSE IF format[1] = 1 THEN get_impl_format1(d, g, overflow_checks)
    ELSE IF format[1] = 2 THEN get_impl_format2(d, g)
    ELSE Returned(None)

\* get_impl(glyph_id).unwrap_or(Class(0))
get(d, g, overflow_checks) ==
    LET r == get_impl(d, g, overflow_checks) IN
    IF r.panic THEN r
    ELSE Returned(IF IsSome(r.value) THEN r.value[1] ELSE 0)

(***************************************************************************)
(* The count-prefixed list tables.  Each parser yields None on any failed  *)
(* read, and otherwise a view holding the record array.                    *)
(***************************************************************************)
ScriptListTable_parse(d) ==
    LET count == read_u16(d, 0) IN
    IF IsNone(count) THEN None
    ELSE LET script_records == read_array(d, 2, count[1], ScriptRecord_SIZE) IN
         IF IsNone(script_records) THEN None
         ELSE Some([data |-> d, script_records |-> script_records[1]])

FeatureListTable_parse(d) ==
    LET count == read_u16(d, 0) IN
    IF IsNone(count) THEN None
    ELSE LET feature_records == read_array(d, 2, count[1], FeatureRecord_SIZE) IN
         IF IsNone(feature_records) THEN None
         ELSE Some([feature_records |-> feature_records[1]])

\* a mutant: a short offset array is accepted as an empty one
LookupListTable_parse_lenient(d) ==
    LET count == read_u16(d, 0) IN
    IF IsNone(count) THEN None
    ELSE LET lookup_offsets == read_array(d, 2, count[1], Offset16_SIZE) IN
         IF IsNone(lookup_offsets) THEN Some([lookup_offsets |-> <<>>])
         ELSE Some([lookup_offsets |-> lookup_offsets[1]])

LookupListTable_parse(d) ==
    LET count == read_u16(d, 0) IN
    IF IsNone(count) THEN None
    ELSE LET lookup_offsets == read_array(d, 2, count[1], Offset16_SIZE) IN
         IF IsNone(lookup_offsets) THEN None
         ELSE Some([lookup_offsets |-> lookup_offsets[1]])

(***************************************************************************)
(* LangSysTable::parse                                                     *)
(***************************************************************************)
\* a mutant: the reserved lookup-order offset is read and ignored
LangSysTable_parse_unchecked(d) ==
    LET lookup_order_offset == read_opt_offset16(d, 0) IN
    IF IsNone(lookup_order_offset) THEN None
    ELSE LET index == read_u16(d, 2) IN
         IF IsNone(index) THEN None
         ELSE LET count == read_u16(d, 4) IN
              IF IsNone(count) THEN None
              ELSE LET feature_indices == read_array(d, 6, count[1], 2) IN
                   IF IsNone(feature_indices) THEN None
                   ELSE Some([required_feature_index |->
                                 IF index[1] = 65535 THEN None ELSE Some(index[1]),
                              feature_indices |-> feature_indices[1]])

LangSysTable_parse(d) ==
    LET lookup_order_offset == read_opt_offset16(d, 0) IN
    IF IsNone(lookup_order_offset) THEN None
    ELSE IF IsSome(lookup_order_offset[1]) THEN None
    ELSE LET index == read_u16(d, 2) IN
         IF IsNone(index) THEN None
         ELSE LET count == read_u16(d, 4) IN
              IF IsNone(count) THEN None
              ELSE LET feature_indices == read_array(d, 6, count[1], 2) IN
                   IF IsNone(feature_indices) THEN None
                   ELSE Some([required_feature_index |->
                                 IF index[1] = 65535 THEN None ELSE Some(index[1]),
                              feature_indices |-> feature_indices[1]])

(***************************************************************************)
(* FeatureVariations::parse and its record array                           *)
(***************************************************************************)
\* a mutant: any version is accepted
FeatureVariations_parse_any_version(d) ==
    LET version == read_u32(d, 0) IN
    IF IsNone(version) THEN None
    ELSE LET count == read_u32(d, 4) IN
         IF IsNone(count) THEN None
         ELSE LET records == read_array(d, 8, count[1],
                                        FeatureVariationRecord_SIZE) IN
              IF IsNone(records) THEN None
              ELSE Some([feature_variation_records |-> records[1]])

FeatureVariations_parse(d) ==
    LET version == read_u32(d, 0) IN
    IF IsNone(version) THEN None
    ELSE IF version[1] # 65536 THEN None
    ELSE LET count == read_u32(d, 4) IN
         IF IsNone(count) THEN None
         ELSE LET records == read_array(d, 8, count[1],
                                        FeatureVariationRecord_SIZE) IN
              IF IsNone(records) THEN None
              ELSE Some([feature_variation_records |-> records[1]])

\* FeatureVariationRecord::parse on the bytes of one array element
FeatureVariationRecord_parse(d) ==
    LET condition_set_offset == read_u32(d, 0) IN
    IF IsNone(condition_set_offset) THEN None
    ELSE LET feature_table_substitution_offset == read_u32(d, 4) IN
         IF IsNone(feature_table_substitution_offset) THEN None
         ELSE Some([condition_set_offset |-> condition_set_offset[1],
                    feature_table_substitution_offset |->
                        feature_table_substitution_offset[1]])

\* LazyArray32<FeatureVariationRecord>::get
FeatureVariationRecord_get(arr, index) ==
    IF index < LazyArray_len(arr, FeatureVariationRecord_SIZE)
    THEN FeatureVariationRecord_parse(
             SubSeq(arr, index * FeatureVariationRecord_SIZE + 1,
                    index * FeatureVariationRecord_SIZE
                        + FeatureVariationRecord_SIZE))
    ELSE None

(***************************************************************************)
(* gsub::Table::parse                                                      *)
(***************************************************************************)
\* a mutant: the gate is `version >= 0x00010000`
feature_variations_offset_ungated(d, version) ==
    IF version >= 65536 THEN read_opt_offset16(d, 10) ELSE Some(None)

\* the optional fourth header field: None is a failed read, Some(None) no
\* offset, Some(Some(o)) the offset o
feature_variations_offset(d, version) ==
    IF version > 65536 THEN read_opt_offset16(d, 10) ELSE Some(None)

\* data.get(offset..)? then the sub-parser
ScriptListTable_at(d, offset) ==
    IF IsNone(slice_from(d, offset)) THEN None
    ELSE ScriptListTable_parse(slice_from(d, offset)[1])

FeatureListTable_at(d, offset) ==
    IF IsNone(slice_from(d, offset)) THEN None
    ELSE FeatureListTable_parse(slice_from(d, offset)[1])

LookupListTable_at(d, offset) ==
    IF IsNone(slice_from(d, offset)) THEN None
    ELSE LookupListTable_parse(slice_from(d, offset)[1])

FeatureVariations_at(d, offset) ==
    IF IsNone(slice_from(d, offset)) THEN None
    ELSE FeatureVariations_parse(slice_from(d, offset)[1])

Table_parse(d) ==
    LET version == read_u32(d, 0) IN
    IF IsNone(version) THEN None
    ELSE IF ~(version[1] = 65536 \/ version[1] = 65537) THEN None
    ELSE
    LET script_list_offset == read_u16(d, 4)
        feature_list_offset == read_u16(d, 6)
        lookup_list_offset == read_u16(d, 8)
    IN
    IF IsNone(script_list_offset) \/ IsNone(feature_list_offset)
           \/ IsNone(lookup_list_offset)
    THEN None
    ELSE
    LET fv_offset == feature_variations_offset(d, version[1]) IN
    IF IsNone(fv_offset) THEN None
    ELSE
    LET script_list_table == ScriptListTable_at(d, script_list_offset[1])
        feature_list_table == FeatureListTable_at(d, feature_list_offset[1])
        lookup_list_table == LookupListTable_at(d, lookup_list_offset[1])
    IN
    IF IsNone(script_list_table) \/ IsNone(feature_list_table)
           \/ IsNone(lookup_list_table)
    THEN None
    ELSE
    LET feature_variations ==
            IF IsSome(fv_offset[1])
            THEN FeatureVariations_at(d, fv_offset[1][1])
            ELSE Some(None)
    IN
    IF IsSome(fv_offset[1]) /\ IsNone(feature_variations) THEN None
    ELSE Some([script_list_table |-> script_list_table[1],
               feature_list_table |-> feature_list_table[1],
               lookup_list_table |-> lookup_list_table[1],
               feature_variations |->
                   IF IsSome(fv_offset[1]) THEN feature_variations
                   ELSE None])

(***************************************************************************)
(* Buffers the operations are applied to.                                  *)
(***************************************************************************)
BE16(w) == <<w \div 256, w % 256>>
BE32(w) == BE16(w \div 65536) \o BE16(w % 65536)

RECURSIVE Words(_)
Words(ws) == IF ws = <<>> THEN <<>> ELSE BE16(Head(ws)) \o Words(Tail(ws))

SeqsUpTo(S, n) == UNION {[1..k -> S] : k \in 0..n}

\* a buffer, and the same buffer with its last byte missing
Cuts(d) == {d} \cup (IF Len(d) > 0 THEN {SubSeq(d, 1, Len(d) - 1)} ELSE {})

GlyphIds == (0..MaxGlyph) \cup {256, 65535}
QueryGlyphs == GlyphIds \cup {MaxGlyph + 1, 257}

RangeWords == {<<s, e, 0>> : s \in GlyphIds, e \in GlyphIds}
RECURSIVE Flatten(_)
Flatten(ss) == IF ss = <<>> THEN <<>> ELSE Head(ss) \o Flatten(Tail(ss))

\* format 1: a declared count and a glyph list, independent of each other
\* format 2: a declared count and range records, independent of each other
\* and a few buffers with no or an unknown format
CoverageBuffer(d) ==
    \/ \E c \in 0..(MaxCount + 1), l \in SeqsUpTo(GlyphIds, MaxCount) :
          d \in Cuts(Words(<<1, c>> \o l))
    \/ \E c \in 0..(MaxRecords + 1), rs \in SeqsUpTo(RangeWords, MaxRecords) :
          d \in Cuts(Words(<<2, c>> \o Flatten(rs)))
    \/ d \in {<<>>, <<0>>, Words(<<0, 1, 0>>), Words(<<3, 1, 0>>),
              Words(<<256, 1, 0>>)}

(***************************************************************************)
(* Coverage table: constructed over a buffer, then queried for a glyph.     *)
(***************************************************************************)
InitCoverage ==
    /\ CoverageBuffer(data)
    /\ glyph_id = 0
    /\ pc = "new"
    /\ result = None

Contains ==
    \E g \in QueryGlyphs :
        /\ pc = "new"
        /\ glyph_id' = g
        /\ result' = contains(data, g)
        /\ pc' = "contains"
        /\ UNCHANGED data

NextCoverage == Contains

SpecCoverage == InitCoverage /\ [][NextCoverage]_vars

(***************************************************************************)
(* Class definition table: constructed over a buffer, then queried.        *)
(***************************************************************************)
Classes == 0..MaxClass
SmallGlyphs == 0..MaxGlyph
ClassRangeWords ==
    {<<s, e, v>> : s \in SmallGlyphs, e \in SmallGlyphs, v \in 1..MaxClass}

ClassDefBuffer(d) ==
    \/ \E s \in GlyphIds, c \in 0..(MaxCount + 1),
          a \in SeqsUpTo(Classes, MaxCount) :
          d \in Cuts(Words(<<1, s, c>> \o a))
    \/ \E c \in 0..(MaxRecords + 1),
          rs \in SeqsUpTo(ClassRangeWords, MaxRecords) :
          d \in Cuts(Words(<<2, c>> \o Flatten(rs)))
    \/ d \in {<<>>, <<0>>, Words(<<0, 0, 1, 1>>), Words(<<3, 0, 1, 1>>)}

InitClassDef ==
    /\ ClassDefBuffer(data)
    /\ glyph_id = 0
    /\ pc = "new"
    /\ result = None

Get ==
    \E g \in QueryGlyphs, overflow_checks \in BOOLEAN :
        /\ pc = "new"
        /\ glyph_id' = g
        /\ result' = get(data, g, overflow_checks)
        /\ pc' = "get"
        /\ UNCHANGED data

NextClassDef == Get

SpecClassDef == InitClassDef /\ [][NextClassDef]_vars

(***************************************************************************)
(* Root table: parsed once from a buffer.                                  *)
(***************************************************************************)
Prefixes(d) == {SubSeq(d, 1, k) : k \in 0..Len(d)}

PastEnd == 14 + 2 * MaxRest + 2
TableVersions == {65536, 65537, 65538, 131072}
TableOffsets == {0, 14, 16, PastEnd}
FVOffsetWords == {0, 14}

\* a version, three offsets, two words where the fourth field would be and
\* up to MaxRest words of sub-table bytes; and every truncation of a header
TableBuffer(d) ==
    \/ \E v \in TableVersions, so \in TableOffsets, fo \in TableOffsets,
          lo \in TableOffsets, f1 \in FVOffsetWords, f2 \in FVOffsetWords,
          rest \in SeqsUpTo({0, 1}, MaxRest) :
          d = BE32(v) \o Words(<<so, fo, lo>>) \o Words(<<f1, f2>>)
                \o Words(rest)
    \/ \E v \in {65536, 65537}, f1 \in FVOffsetWords, f2 \in FVOffsetWords :
          d \in Prefixes(BE32(v) \o Words(<<0, 0, 0, f1, f2>>))

InitTable ==
    /\ TableBuffer(data)
    /\ glyph_id = 0
    /\ pc = "new"
    /\ result = None

TableParse ==
    /\ pc = "new"
    /\ result' = Table_parse(data)
    /\ pc' = "parse"
    /\ UNCHANGED <<data, glyph_id>>

NextTable == TableParse

SpecTable == InitTable /\ [][NextTable]_vars

(***************************************************************************)
(* Language system table: parsed once from a buffer.                       *)
(***************************************************************************)
LangSysBuffer(d) ==
    \/ \E r \in {0, 1, 256}, q \in {0, 1, 65535},
          c \in 0..(MaxCount + 1), l \in SeqsUpTo({0, 1}, MaxCount) :
          d \in Cuts(Words(<<r, q, c>> \o l))
    \/ d \in Prefixes(Words(<<0, 1, 0>>)) \cup Prefixes(Words(<<1, 1, 0>>))

InitLangSys ==
    /\ LangSysBuffer(data)
    /\ glyph_id = 0
    /\ pc = "new"
    /\ result = None

LangSysParse ==
    /\ pc = "new"
    /\ result' = LangSysTable_parse(data)
    /\ pc' = "parse_langsys"
    /\ UNCHANGED <<data, glyph_id>>

NextLangSys == LangSysParse

SpecLangSys == InitLangSys /\ [][NextLangSys]_vars

(***************************************************************************)
(* Feature variations table: parsed once, its records then read by index.  *)
(***************************************************************************)
Payload(seed, n) == [k \in 1..n |-> (37 * k + seed) % 256]

FVBuffer(d) ==
    \/ \E v \in {65536, 65537, 1, 0},
          c \in (0..(MaxFVCount + 1)) \cup {65536},
          seed \in {1, 200}, n \in 0..(8 * MaxFVCount + 1) :
          d = BE32(v) \o BE32(c) \o Payload(seed, n)
    \/ d \in Prefixes(BE32(65536) \o BE32(0)) \cup Prefixes(BE32(1) \o BE32(0))

InitFV ==
    /\ FVBuffer(data)
    /\ glyph_id = 0
    /\ pc = "new"
    /\ result = None

FeatureVariationsParse ==
    /\ pc = "new"
    /\ result' = FeatureVariations_parse(data)
    /\ pc' = "parse_fv"
    /\ UNCHANGED <<data, glyph_id>>

NextFV == FeatureVariationsParse

SpecFV == InitFV /\ [][NextFV]_vars

(***************************************************************************)
(* Reference readings of a buffer, by byte position.                       *)
(***************************************************************************)
WordAt(d, off) == d[off + 1] * 256 + d[off + 2]
HasWord(d, off) == off + 2 <= Len(d)
Format(d) == IF HasWord(d, 0) THEN WordAt(d, 0) ELSE -1
Remaining(d, off) == Len(d) - off

(***************************************************************************)
(* C1: CoverageTable::contains never fails: it returns a boolean for every *)
(* buffer and glyph id, and false whenever the declared count of a         *)
(* format-1 (2 bytes per glyph) or format-2 (6 bytes per record) table     *)
(* needs more bytes than remain after the count field.                     *)
(***************************************************************************)
CountOverrun(d) ==
    /\ HasWord(d, 2)
    /\ \/ Format(d) = 1 /\ 2 * WordAt(d, 2) > Remaining(d, 4)
       \/ Format(d) = 2 /\ 6 * WordAt(d, 2) > Remaining(d, 4)

C1_ContainsNeverFails ==
    pc = "contains" =>
        /\ ~result.panic
        /\ (CountOverrun(data) \/ Format(data) \notin {1, 2})
               => result.value = FALSE

(***************************************************************************)
(* C3: for a well-formed coverage table contains(g) is membership in the   *)
(* encoded set: the glyph list of format 1 (sorted ascending), the union   *)
(* of the inclusive ranges of format 2 (records in any order; a record     *)
(* with start > end matches nothing).                                      *)
(***************************************************************************)
ArrayPresent(d, off, size) ==
    HasWord(d, off) /\ size * WordAt(d, off) <= Remaining(d, off + 2)

GlyphList(d) == [i \in 1..WordAt(d, 2) |-> WordAt(d, 4 + 2 * (i - 1))]

Sorted(l) == \A i \in DOMAIN l : \A j \in DOMAIN l : i < j => l[i] <= l[j]

WellFormed1(d) ==
    Format(d) = 1 /\ ArrayPresent(d, 2, 2) /\ Sorted(GlyphList(d))

WellFormed2(d) == Format(d) = 2 /\ ArrayPresent(d, 2, 6)

RangeStart(d, i) == WordAt(d, 4 + 6 * i)
RangeEnd(d, i) == WordAt(d, 6 + 6 * i)
RangeValue(d, i) == WordAt(d, 8 + 6 * i)
InRange(d, i, g) == RangeStart(d, i) <= g /\ g <= RangeEnd(d, i)

C3_ContainsIsMembership ==
    pc = "contains" =>
        /\ WellFormed1(data) =>
              /\ ~result.panic
              /\ result.value
                   = (\E i \in DOMAIN GlyphList(data) :
                          GlyphList(data)[i] = glyph_id)
        /\ WellFormed2(data) =>
              /\ ~result.panic
              /\ result.value
                   = (\E i \in 0..(WordAt(data, 2) - 1) :
                          InRange(data, i, glyph_id))

\* a format-2 table whose first record is inverted around the glyph and
\* whose second record covers it
C3_Witness ==
    /\ pc = "contains"
    /\ WellFormed2(data)
    /\ WordAt(data, 2) = 2
    /\ RangeEnd(data, 0) < glyph_id /\ glyph_id < RangeStart(data, 0)
    /\ InRange(data, 1, glyph_id)
    /\ RangeStart(data, 1) < RangeEnd(data, 1)
    /\ ~result.panic /\ result.value = TRUE

(***************************************************************************)
(* C2: a format-1 class definition table with start S and a fully present  *)
(* class array A of length N gives get(g) = A[g - S] for S <= g < S + N    *)
(* and Class(0) otherwise; for g < S the result is Class(0) and g - S is   *)
(* never evaluated, whatever the build does on overflow.                   *)
(***************************************************************************)
ClassArray(d) == [i \in 1..WordAt(d, 4) |-> WordAt(d, 6 + 2 * (i - 1))]

C2_Format1Get ==
    (pc = "get" /\ Format(data) = 1 /\ HasWord(data, 2)
        /\ ArrayPresent(data, 4, 2)) =>
        LET S == WordAt(data, 2)
            N == WordAt(data, 4)
        IN /\ ~result.panic
           /\ result.value
                = (IF S <= glyph_id /\ glyph_id < S + N
                   THEN ClassArray(data)[glyph_id - S + 1]
                   ELSE 0)

\* g < S, with an array long enough that a wrapped index would hit it
C2_Witness ==
    /\ pc = "get" /\ Format(data) = 1 /\ HasWord(data, 2)
    /\ ArrayPresent(data, 4, 2)
    /\ glyph_id < WordAt(data, 2)
    /\ glyph_id - WordAt(data, 2) + 65536 < WordAt(data, 4)
    /\ ClassArray(data)[glyph_id - WordAt(data, 2) + 65536 + 1] # 0
    /\ result = Returned(0)

(***************************************************************************)
(* C4: a format-2 class definition table gives the value of the first      *)
(* record, in buffer order, whose inclusive range holds g, and Class(0)    *)
(* when none does.                                                         *)
(***************************************************************************)
C4_Format2FirstMatch ==
    (pc = "get" /\ Format(data) = 2 /\ ArrayPresent(data, 2, 6)) =>
        LET N == WordAt(data, 2) IN
        /\ ~result.panic
        /\ \/ /\ \A i \in 0..(N - 1) : ~InRange(data, i, glyph_id)
              /\ result.value = 0
           \/ \E i \in 0..(N - 1) :
                 /\ InRange(data, i, glyph_id)
                 /\ \A j \in 0..(i - 1) : ~InRange(data, j, glyph_id)
                 /\ result.value = RangeValue(data, i)

\* two overlapping records with different values: the earlier one wins
C4_Witness ==
    /\ pc = "get" /\ Format(data) = 2 /\ ArrayPresent(data, 2, 6)
    /\ WordAt(data, 2) = 2
    /\ InRange(data, 0, glyph_id) /\ InRange(data, 1, glyph_id)
    /\ RangeValue(data, 0) # RangeValue(data, 1)
    /\ result = Returned(RangeValue(data, 0))

(***************************************************************************)
(* Reference readings of the root table.                                   *)
(***************************************************************************)
DWordAt(d, off) == WordAt(d, off) * 65536 + WordAt(d, off + 2)
HasDWord(d, off) == off + 4 <= Len(d)
Version(d) == IF HasDWord(d, 0) THEN DWordAt(d, 0) ELSE -1

\* a count-prefixed array of `size`-byte records lies wholly in the buffer
\* sliced at `offset`
ListAt(d, offset, size) ==
    /\ offset <= Len(d)
    /\ HasWord(d, offset)
    /\ size * WordAt(d, offset) <= Remaining(d, offset + 2)

MandatoryPartsOk(d) ==
    /\ Len(d) >= 10
    /\ ListAt(d, WordAt(d, 4), 6)
    /\ ListAt(d, WordAt(d, 6), 6)
    /\ ListAt(d, WordAt(d, 8), 2)

(***************************************************************************)
(* C5: with version 0x00010000 a successful parse has no feature           *)
(* variations whatever bytes sit at byte 10 onward, and success is decided *)
(* by the 10-byte header and the three sub-tables alone: those bytes are   *)
(* not read as an offset.                                                  *)
(***************************************************************************)
C5_VersionGate ==
    (pc = "parse" /\ Version(data) = 65536) =>
        /\ IsSome(result) <=> MandatoryPartsOk(data)
        /\ IsSome(result) => result[1].feature_variations = None

\* version 0x00010000, a non-zero word where the offset field would be
C5_Witness ==
    /\ pc = "parse" /\ Version(data) = 65536
    /\ HasDWord(data, 10) /\ WordAt(data, 10) # 0 /\ WordAt(data, 12) # 0
    /\ IsSome(result)
    /\ result[1].feature_variations = None

(***************************************************************************)
(* C6: with version 0x00010001 the feature-variations offset is the 32-bit *)
(* big-endian value at bytes 10..13: zero gives no feature variations,     *)
(* non-zero gives the FeatureVariations parsed at that offset, and the     *)
(* parse fails when that offset is past the end or nothing parses there.   *)
(***************************************************************************)
C6_Offset32 ==
    (pc = "parse" /\ Version(data) = 65537 /\ MandatoryPartsOk(data)
        /\ HasDWord(data, 10)) =>
        IF DWordAt(data, 10) = 0
        THEN IsSome(result) /\ result[1].feature_variations = None
        ELSE IF IsNone(FeatureVariations_at(data, DWordAt(data, 10)))
        THEN result = None
        ELSE /\ IsSome(result)
             /\ result[1].feature_variations
                  = FeatureVariations_at(data, DWordAt(data, 10))

C8_ReservedField ==
    pc = "parse_langsys" =>
        /\ (HasWord(data, 0) /\ WordAt(data, 0) # 0) => result = None
        /\ (HasWord(data, 0) /\ WordAt(data, 0) = 0 /\ HasWord(data, 2)
               /\ ArrayPresent(data, 4, 2)) =>
              /\ IsSome(result)
              /\ result[1].required_feature_index
                   = (IF WordAt(data, 2) = 65535 THEN None
                      ELSE Some(WordAt(data, 2)))

\* a non-zero reserved field in front of an otherwise well-formed table
C8_Witness ==
    /\ pc = "parse_langsys"
    /\ HasWord(data, 0) /\ WordAt(data, 0) # 0 /\ HasWord(data, 2)
    /\ ArrayPresent(data, 4, 2) /\ WordAt(data, 4) > 0
    /\ result = None

(***************************************************************************)
(* C9: FeatureVariations::parse fails for every version other than         *)
(* 0x00010000, even when a well-formed count and record array follow.      *)
(***************************************************************************)
C9_VersionGate ==
    (pc = "parse_fv" /\ HasDWord(data, 0) /\ DWordAt(data, 0) # 65536)
        => result = None

\* an unknown version in front of a count and that many 8-byte records
C9_Witness ==
    /\ pc = "parse_fv"
    /\ HasDWord(data, 0) /\ DWordAt(data, 0) # 65536
    /\ HasDWord(data, 4) /\ DWordAt(data, 4) > 0
    /\ 8 * DWordAt(data, 4) <= Remaining(data, 8)
    /\ result = None

(***************************************************************************)
(* C10: feature-variation records are 8 bytes: with version 0x00010000 and *)
(* count N the parse succeeds exactly when 8 * N bytes follow the count,   *)
(* and record i < N is the pair of 32-bit values at byte 8 + 8 * i.        *)
(***************************************************************************)
C10_EightByteRecords ==
    (pc = "parse_fv" /\ HasDWord(data, 0) /\ DWordAt(data, 0) = 65536
        /\ HasDWord(data, 4)) =>
        LET N == DWordAt(data, 4) IN
        /\ IsSome(result) <=> 8 * N <= Remaining(data, 8)
        /\ IsSome(result) =>
              \A i \in 0..(N - 1) :
                  FeatureVariationRecord_get(
                      result[1].feature_variation_records, i)
                    = Some([condition_set_offset |-> DWordAt(data, 8 + 8 * i),
                            feature_table_substitution_offset |->
                                DWordAt(data, 12 + 8 * i)])

====
